---- MODULE Spec2Model ----
(***************************************************************************)
(* rossip: broadcast peer discovery (src/src/peer/discovery.rs) and the    *)
(* start-up sequence of the process (src/src/main.rs).                     *)
(*                                                                         *)
(* Each node runs main, which spawns the listener (dispatch loop), the     *)
(* periodic announce task and the heartbeat task.  A handler is cut into   *)
(* steps at its await points: between two awaits a tokio task runs         *)
(* without interleaving.  A send_message call that is in progress is a     *)
(* state of its own (pc "disc_reply", "disc_peerlist", "pl_followup");     *)
(* the step that leaves it draws the send's outcome.                       *)
(*                                                                         *)
(* A message's content is modelled by its comma-separated fields: the      *)
(* sequence content.split(',') yields.  The empty content is the one-field *)
(* sequence <<"">>.                                                        *)
(***************************************************************************)
EXTENDS Integers, Sequences, FiniteSets

\* ------------------------------------------------------------------ bounds

\* The clock (std::time::Instant, counted in stale periods) runs 0..MaxTime.
MaxTime == 2
\* The longest PeerList content the environment sends, in fields.
MaxEntries == 2

\* --------------------------------------------------------------- addresses

Nodes == {"X", "Y", "P", "Q"}

\* std::net::SocketAddr values.
AddrX == [ip |-> "10.0.0.1", port |-> 8888]
AddrY == [ip |-> "10.0.0.4", port |-> 8888]
AddrP == [ip |-> "10.0.0.2", port |-> 9487]
AddrQ == [ip |-> "::3", port |-> 9487]
NoAddr == [ip |-> "", port |-> 0]

\* local_addr of each node: socket_send.local_addr().
LocalAddr(n) ==
  CASE n = "X" -> AddrX
    [] n = "Y" -> AddrY
    [] n = "P" -> AddrP
    [] n = "Q" -> AddrQ

\* The display name each node was started with.
Username(n) ==
  CASE n = "X" -> "xena"
    [] n = "Y" -> "yuri"
    [] n = "P" -> "alice"
    [] n = "Q" -> "bob"

\* SocketAddr's Display: one canonical text per address.
to_string(addr) ==
  CASE addr = AddrX -> "10.0.0.1:8888"
    [] addr = AddrY -> "10.0.0.4:8888"
    [] addr = AddrP -> "10.0.0.2:9487"
    [] addr = AddrQ -> "[::3]:9487"
    [] OTHER -> ""

\* The texts SocketAddr::from_str accepts: the canonical ones, and for an IPv6
\* address its other spellings (one of them here).
AddrTexts ==
  { <<"10.0.0.1:8888", AddrX>>, <<"10.0.0.4:8888", AddrY>>,
    <<"10.0.0.2:9487", AddrP>>, <<"[::3]:9487", AddrQ>>,
    <<"[0:0:0:0:0:0:0:3]:9487", AddrQ>> }

\* A from_str that takes any text for an address.
FromStrLenient(s) ==
  IF \E t \in AddrTexts : t[1] = s
  THEN [ok |-> TRUE, addr |-> (CHOOSE t \in AddrTexts : t[1] = s)[2]]
  ELSE [ok |-> TRUE, addr |-> NoAddr]

\* SocketAddr::from_str: Ok(addr) or Err.
FromStr(s) ==
  IF \E t \in AddrTexts : t[1] = s
  THEN [ok |-> TRUE, addr |-> (CHOOSE t \in AddrTexts : t[1] = s)[2]]
  ELSE [ok |-> FALSE, addr |-> NoAddr]

\* The broadcast ports a node is configured with, and the text of a broadcast
\* destination.
BroadcastPorts == <<9487, 9488>>
BROADCAST_ADDR == "255.255.255.255"
BroadcastDest(port) == <<BROADCAST_ADDR, port>>

\* ---------------------------------------------------------------- messages

NoMsg == [kind |-> "None", sender |-> "", sender_addr |-> <<>>, content |-> <<>>]

\* Message::new_discovery(username, local_addr)
new_discovery(username, local_addr) ==
  [kind |-> "Discovery", sender |-> username,
   sender_addr |-> <<to_string(local_addr)>>, content |-> <<"">>]

\* Message::new_peer_list(username, peer_addrs, local_addr): the content is
\* peer_addrs.join(","), whose fields are peer_addrs (one empty field when
\* peer_addrs is empty).
new_peer_list(username, peer_addrs, local_addr) ==
  [kind |-> "PeerList", sender |-> username,
   sender_addr |-> <<to_string(local_addr)>>,
   content |-> IF peer_addrs = <<>> THEN <<"">> ELSE peer_addrs]

\* Message::new_chat(username, line, Some(local_addr))
new_chat(username, line, local_addr) ==
  [kind |-> "Chat", sender |-> username,
   sender_addr |-> <<to_string(local_addr)>>, content |-> <<line>>]

\* ---------------------------------------------------------------- registry

\* PeerList (the registry): a collection of Peer {addr, name, last_seen}.

\* add_or_update_peer that pushes a new entry without looking for an old one.
add_peer_unchecked(reg, addr, name, t) ==
  reg \cup {[addr |-> addr, name |-> name, last_seen |-> t]}

\* PeerList::add_or_update_peer
add_or_update_peer(reg, addr, name, t) ==
  {p \in reg : p.addr # addr} \cup {[addr |-> addr, name |-> name, last_seen |-> t]}

\* PeerList::update_last_seen: the bool it returns ...
is_known(reg, addr) == \E p \in reg : p.addr = addr

\* ... and the registry it leaves.
update_last_seen(reg, addr, t) ==
  {IF p.addr = addr THEN [p EXCEPT !.last_seen = t] ELSE p : p \in reg}

\* PeerList::get_peers: a snapshot, in an order the map's iteration decides.
Orderings(S) ==
  {q \in [1..Cardinality(S) -> S] : \A i, j \in 1..Cardinality(S) : i # j => q[i] # q[j]}

get_peers(reg) == Orderings(reg)

\* PeerList::prune_stale(ttl).  TTL is the ttl the heartbeat task passes, in
\* clock units.
TTL == 1
prune_stale(reg, ttl, t) == {p \in reg : ~(t - p.last_seen > ttl)}

RegAddrs(reg) == {p.addr : p \in reg}
NameOf(reg, addr) == (CHOOSE p \in reg : p.addr = addr).name

\* ------------------------------------------------------------------- state

VARIABLES
  wired,        \* TRUE: the nodes' datagrams reach each other; FALSE: the
                \* network is the environment
  now,          \* the monotonic clock
  sender_only,  \* [node -> BOOLEAN]: main's sender_only argument
  mpc,          \* [node -> main's position]
  exit_code,    \* [node -> "none" | "ok" | "err_discovery" | "err_chat"]
  tasks,        \* [node -> the spawned tasks that run]
  round,        \* [node -> the attempts of the last announce round]
  registry,     \* [node -> set of Peer]
  guard,        \* [node -> "free" | "dispatch"]: the registry's mutex
  h,            \* [node -> the dispatch loop's handler invocation]
  trace,        \* [node -> what the last handler invocation did, in order]
  reg0,         \* [node -> the registry when the last invocation started]
  inbox         \* [node -> datagrams queued at the receive socket]

vars == <<wired, now, sender_only, mpc, exit_code, tasks, round, registry,
          guard, h, trace, reg0, inbox>>

\* One entry of trace.
Ev(op, addr, name, to, msg, ok) ==
  [op |-> op, addr |-> addr, name |-> name, to |-> to, msg |-> msg, ok |-> ok]
EvAdd(addr, name) == Ev("add", addr, name, "", NoMsg, TRUE)
EvTouch(addr) == Ev("touch", addr, "", "", NoMsg, TRUE)
\* name records whether the registry guard was held while the send ran.
EvSend(to, msg, ok, held) == Ev("send", NoAddr, IF held THEN "held" ELSE "released", to, msg, ok)
EvLog == Ev("log", NoAddr, "", "", NoMsg, TRUE)

\* pc: "idle" (the loop awaits a datagram), a send in progress ("disc_reply",
\* "disc_peerlist", "pl_followup"), or "done" (the handler is returning
\* `result`; trace, reg0 and msg tell what it did).
Idle == [pc |-> "idle", msg |-> NoMsg, rest |-> <<>>, to |-> "", out |-> NoMsg,
         new_peers |-> FALSE, result |-> "none"]

\* The datagram reaches the receive socket of the node it is addressed to.
Deliver(inb, to, msg, ok) ==
  IF wired /\ ok /\ FromStr(to).ok
     /\ \E m \in Nodes : LocalAddr(m) = FromStr(to).addr /\ "listener" \in tasks[m]
  THEN LET m == CHOOSE m \in Nodes : LocalAddr(m) = FromStr(to).addr
       IN [inb EXCEPT ![m] = Append(@, msg)]
  ELSE inb

\* A send's outcome: Ok (TRUE) or an io::Error (FALSE).  In the wired network
\* every datagram is sent and delivered.
SendOutcomes == IF wired THEN {TRUE} ELSE BOOLEAN

\* An Err that is dropped: the function runs on.
IsErrNever(ok) == FALSE

\* The `?` after a send_message call: an Err leaves the function at once.
IsErr(ok) == ~ok

\* The handler is returning `result`; its guard, if taken, is dropped as it
\* returns (HandlerReturn).
Done(n, result) == h' = [h EXCEPT ![n].pc = "done", ![n].result = result]

\* ------------------------------------------------ handle_discovery_message

\* Lines 68-69: the sender's address is present and parses.
SenderParses(msg) == msg.sender_addr # <<>> /\ FromStr(msg.sender_addr[1]).ok

\* The sender registered under the text of its address, not its name.
DiscoveryNameAddr(msg) == msg.sender_addr[1]

\* Line 72: the name the sender is registered under.
DiscoveryName(msg) == msg.sender

\* The reply addressed to the parsed address's canonical text.
ReplyDestCanonical(addr, addr_str) == to_string(addr)

\* Line 76: where the reply goes.
ReplyDest(addr, addr_str) == addr_str

\* Lines 79-86: the PeerList built from the registry, in one of the orders
\* get_peers may give.
PeerListsOf(n, reg) ==
  {new_peer_list(Username(n), [i \in 1..Len(peers) |-> to_string(peers[i].addr)], LocalAddr(n)) :
     peers \in get_peers(reg)}

\* The PeerList never sent.
SendsPeerListNever(reg) == FALSE

\* Line 80: the PeerList is sent when the snapshot is not empty.
SendsPeerList(reg) == reg # {}

\* Lines 68-76, to the await of the reply's send.
DiscoveryStart(n, msg, inb) ==
  /\ reg0' = [reg0 EXCEPT ![n] = registry[n]]
  /\ inbox' = inb
  /\ IF SenderParses(msg)
     THEN LET addr_str == msg.sender_addr[1]
              addr == FromStr(addr_str).addr
          IN /\ guard' = [guard EXCEPT ![n] = "dispatch"]
             /\ registry' = [registry EXCEPT
                               ![n] = add_or_update_peer(@, addr, DiscoveryName(msg), now)]
             /\ trace' = [trace EXCEPT ![n] = <<EvAdd(addr, DiscoveryName(msg))>>]
             /\ h' = [h EXCEPT ![n] = [Idle EXCEPT
                        !.pc = "disc_reply", !.msg = msg, !.to = ReplyDest(addr, addr_str),
                        !.out = new_discovery(Username(n), LocalAddr(n))]]
     ELSE /\ h' = [h EXCEPT ![n] = [Idle EXCEPT !.pc = "done", !.msg = msg, !.result = "ok"]]
          /\ trace' = [trace EXCEPT ![n] = <<>>]
          /\ UNCHANGED <<registry, guard>>

\* Line 76 completes; lines 79-87 to the await of the PeerList's send.
DiscoveryReplyDone(n) ==
  /\ h[n].pc = "disc_reply"
  /\ \E ok \in SendOutcomes :
       /\ trace' = [trace EXCEPT
                      ![n] = Append(@, EvSend(h[n].to, h[n].out, ok, guard[n] = "dispatch"))]
       /\ inbox' = Deliver(inbox, h[n].to, h[n].out, ok)
       /\ IF IsErr(ok)
          THEN Done(n, "err")
          ELSE IF SendsPeerList(registry[n])
          THEN \E pl \in PeerListsOf(n, registry[n]) :
                  h' = [h EXCEPT ![n].pc = "disc_peerlist", ![n].out = pl]
          ELSE Done(n, "ok")
  /\ UNCHANGED <<wired, now, sender_only, mpc, exit_code, tasks, round, registry, guard, reg0>>

\* Line 87 completes; the handler returns.
DiscoveryPeerListDone(n) ==
  /\ h[n].pc = "disc_peerlist"
  /\ \E ok \in SendOutcomes :
       /\ trace' = [trace EXCEPT
                      ![n] = Append(@, EvSend(h[n].to, h[n].out, ok, guard[n] = "dispatch"))]
       /\ inbox' = Deliver(inbox, h[n].to, h[n].out, ok)
       /\ Done(n, IF IsErr(ok) THEN "err" ELSE "ok")
  /\ UNCHANGED <<wired, now, sender_only, mpc, exit_code, tasks, round, registry, guard, reg0>>

\* ------------------------------------------------ handle_peer_list_message

\* The self check left out, and the self check that skips every entry.
IsSelfNever(addr, local_addr) == FALSE
IsSelfAlways(addr, local_addr) == TRUE

\* Line 117: the entry is the node's own address.
IsSelf(addr, local_addr) == addr = local_addr

\* Line 126: the temporary name of a peer learnt from a PeerList.
PlaceholderName(addr, addr_str) == to_string(addr)

\* A new peer that is not registered.
register_nothing(reg, addr, addr_str, t) == reg

\* Line 126: the new peer is registered under its temporary name.
register_placeholder(reg, addr, addr_str, t) ==
  add_or_update_peer(reg, addr, PlaceholderName(addr, addr_str), t)

\* Line 131: where the follow-up Discovery goes.
FollowUpDest(addr, addr_str) == to_string(addr)

\* Every entry taken for a new peer.
is_new_always(reg, addr) == TRUE

\* Line 122: the entry is a new peer when update_last_seen returns false.
is_new(reg, addr) == ~is_known(reg, addr)

\* Lines 110-134: the loop over the fields from `rest` on, run to the next
\* await (the send of line 131, `to` set) or to its end (`to` empty).
RECURSIVE PeerListLoop(_, _, _, _, _)
PeerListLoop(reg, rest, tr, t, local_addr) ==
  IF rest = <<>>
  THEN [reg |-> reg, rest |-> <<>>, tr |-> tr, to |-> ""]
  ELSE LET addr_str == Head(rest)
           parsed == FromStr(addr_str)
           addr == parsed.addr
       IN IF addr_str = "" THEN PeerListLoop(reg, Tail(rest), tr, t, local_addr)
          ELSE IF ~parsed.ok THEN PeerListLoop(reg, Tail(rest), tr, t, local_addr)
          ELSE IF IsSelf(addr, local_addr) THEN PeerListLoop(reg, Tail(rest), tr, t, local_addr)
          ELSE IF ~is_new(reg, addr)
          THEN PeerListLoop(update_last_seen(reg, addr, t), Tail(rest),
                            Append(tr, EvTouch(addr)), t, local_addr)
          ELSE [reg |-> register_placeholder(reg, addr, addr_str, t),
                rest |-> Tail(rest),
                tr |-> Append(tr, EvAdd(addr, PlaceholderName(addr, addr_str))),
                to |-> FollowUpDest(addr, addr_str)]

\* Lines 104-141: the handler run from `rest` to its return, a send giving Err
\* when its destination is in `failing`: the registry it leaves, the
\* destinations it sent to and its result.
RECURSIVE handle_peer_list_message(_, _, _, _, _, _)
handle_peer_list_message(reg, rest, sent, failing, t, local_addr) ==
  LET r == PeerListLoop(reg, rest, <<>>, t, local_addr)
  IN IF r.to = "" THEN [reg |-> r.reg, sent |-> sent, result |-> "ok"]
     ELSE IF IsErr(r.to \notin failing)
     THEN [reg |-> r.reg, sent |-> sent \cup {r.to}, result |-> "err"]
     ELSE handle_peer_list_message(r.reg, r.rest, sent \cup {r.to}, failing, t, local_addr)

\* The guard dropped before the loop runs.
peer_list_unlocked(n) == "free"

\* Line 108: the guard the handler takes before the loop, and keeps to its
\* return.
peer_list_lock(n) == "dispatch"

\* The loop runs on from `rest`, under the guard taken at line 108; at its end
\* the handler logs (lines 137-139) and returns Ok.
PeerListRun(n, msg, rest, tr, new_peers) ==
  LET r == PeerListLoop(registry[n], rest, tr, now, LocalAddr(n))
  IN /\ registry' = [registry EXCEPT ![n] = r.reg]
     /\ guard' = [guard EXCEPT ![n] = peer_list_lock(n)]
     /\ IF r.to # ""
        THEN /\ h' = [h EXCEPT ![n] = [Idle EXCEPT
                        !.pc = "pl_followup", !.msg = msg, !.rest = r.rest, !.to = r.to,
                        !.out = new_discovery(Username(n), LocalAddr(n)),
                        !.new_peers = TRUE]]
             /\ trace' = [trace EXCEPT ![n] = r.tr]
        ELSE /\ h' = [h EXCEPT ![n] = [Idle EXCEPT
                        !.pc = "done", !.msg = msg, !.new_peers = new_peers, !.result = "ok"]]
             /\ trace' = [trace EXCEPT ![n] = IF new_peers THEN Append(r.tr, EvLog) ELSE r.tr]

\* Lines 104-131, to the first await of a follow-up send or to the return.
PeerListStart(n, msg, inb) ==
  /\ reg0' = [reg0 EXCEPT ![n] = registry[n]]
  /\ inbox' = inb
  /\ PeerListRun(n, msg, msg.content, <<>>, FALSE)

\* Line 131 completes: on an error the handler returns it, else the loop runs on.
PeerListFollowUpDone(n) ==
  /\ h[n].pc = "pl_followup"
  /\ \E ok \in SendOutcomes :
       LET tr == Append(trace[n], EvSend(h[n].to, h[n].out, ok, guard[n] = "dispatch"))
       IN /\ inbox' = Deliver(inbox, h[n].to, h[n].out, ok)
          /\ IF IsErr(ok)
             THEN /\ Done(n, "err")
                  /\ trace' = [trace EXCEPT ![n] = tr]
                  /\ UNCHANGED <<registry, guard>>
             ELSE PeerListRun(n, h[n].msg, h[n].rest, tr, h[n].new_peers)
  /\ UNCHANGED <<wired, now, sender_only, mpc, exit_code, tasks, round, reg0>>

\* ------------------------------------------------------- the dispatch loop

\* What the environment may send a node: Discovery messages with any sender
\* address text (or none), PeerLists with any fields.
EnvNames == {"alice"}
EnvTexts == {"10.0.0.1:8888", "10.0.0.2:9487", "[::3]:9487", "[0:0:0:0:0:0:0:3]:9487"}
Malformed == "nonsense"
EntryTexts == EnvTexts \cup {"", Malformed}
EnvDiscovery ==
  {[kind |-> "Discovery", sender |-> s, sender_addr |-> a, content |-> <<"">>] :
     s \in EnvNames, a \in {<<>>, <<Malformed>>} \cup {<<t>> : t \in EnvTexts}}
EnvPeerList ==
  {[kind |-> "PeerList", sender |-> "alice", sender_addr |-> <<"10.0.0.2:9487">>, content |-> c] :
     c \in UNION {[1..k -> EntryTexts] : k \in 1..MaxEntries}}

\* listener::listen routes a decoded message by its kind; the handler runs
\* inline, to its first await.
Dispatch(n, msg, inb) ==
  /\ "listener" \in tasks[n]
  /\ h[n].pc = "idle"
  /\ IF msg.kind = "Discovery"
     THEN DiscoveryStart(n, msg, inb)
     ELSE PeerListStart(n, msg, inb)
  /\ UNCHANGED <<wired, now, sender_only, mpc, exit_code, tasks, round>>

\* A datagram from the environment.
RecvDiscovery(n) == ~wired /\ \E msg \in EnvDiscovery : Dispatch(n, msg, inbox)
RecvPeerList(n) == ~wired /\ \E msg \in EnvPeerList : Dispatch(n, msg, inbox)

\* A datagram another node sent.
RecvQueued(n) ==
  /\ wired
  /\ inbox[n] # <<>>
  /\ Dispatch(n, Head(inbox[n]), [inbox EXCEPT ![n] = Tail(@)])

\* The handler has returned to the loop: its guard is dropped, an Err is
\* logged, and the loop awaits the next datagram.
HandlerReturn(n) ==
  /\ h[n].pc = "done"
  /\ h' = [h EXCEPT ![n] = Idle]
  /\ guard' = [guard EXCEPT ![n] = "free"]
  /\ trace' = [trace EXCEPT ![n] = <<>>]
  /\ reg0' = [reg0 EXCEPT ![n] = {}]
  /\ UNCHANGED <<wired, now, sender_only, mpc, exit_code, tasks, round, registry, inbox>>

\* ------------------------------------------------- send_discovery_message

\* Lines 52-55: the sends of one round, `out[i]` being what the send to port i
\* gives if it is made.
RECURSIVE SendDiscoveryAttempts(_, _, _)
SendDiscoveryAttempts(ports, out, i) ==
  IF i > Len(ports) THEN <<>>
  ELSE IF IsErr(out[i]) THEN <<[dest |-> BroadcastDest(ports[i]), ok |-> FALSE]>>
  ELSE <<[dest |-> BroadcastDest(ports[i]), ok |-> TRUE]>>
       \o SendDiscoveryAttempts(ports, out, i + 1)

send_discovery_message(ports, out) == SendDiscoveryAttempts(ports, out, 1)

RoundOk(attempts) == \A i \in 1..Len(attempts) : attempts[i].ok

RoundOutcomes == [1..Len(BroadcastPorts) -> SendOutcomes]

\* -------------------------------------------------------------------- main

\* The process ends: the runtime drops every task, and their state with them.
Exit(n, code) ==
  /\ mpc' = [mpc EXCEPT ![n] = "exited"]
  /\ exit_code' = [exit_code EXCEPT ![n] = code]
  /\ tasks' = [tasks EXCEPT ![n] = {}]
  /\ registry' = [registry EXCEPT ![n] = {}]
  /\ guard' = [guard EXCEPT ![n] = "free"]
  /\ h' = [h EXCEPT ![n] = Idle]
  /\ trace' = [trace EXCEPT ![n] = <<>>]
  /\ reg0' = [reg0 EXCEPT ![n] = {}]

\* A main that sets up two-way communication in either mode.
TwoWayAlways(so) == TRUE

\* main.rs 76-80: two-way communication is set up unless sender_only.
TwoWay(so) == ~so

\* main.rs 76-77
MainSenderOnly(n) ==
  /\ mpc[n] = "start" /\ ~TwoWay(sender_only[n])
  /\ mpc' = [mpc EXCEPT ![n] = "input"]
  /\ UNCHANGED <<wired, now, sender_only, exit_code, tasks, round, registry, guard, h,
                 trace, reg0, inbox>>

\* main.rs 80-96
MainSpawnListener(n) ==
  /\ mpc[n] = "start" /\ TwoWay(sender_only[n])
  /\ tasks' = [tasks EXCEPT ![n] = @ \cup {"listener"}]
  /\ mpc' = [mpc EXCEPT ![n] = "discovery"]
  /\ UNCHANGED <<wired, now, sender_only, exit_code, round, registry, guard, h,
                 trace, reg0, inbox>>

\* main.rs 98-101 and start_discovery 21-40
MainStartDiscovery(n) ==
  /\ mpc[n] = "discovery"
  /\ \E out \in RoundOutcomes :
       LET attempts == send_discovery_message(BroadcastPorts, out)
       IN /\ round' = [round EXCEPT ![n] = attempts]
          /\ IF RoundOk(attempts)
             THEN /\ tasks' = [tasks EXCEPT ![n] = @ \cup {"announce"}]
                  /\ mpc' = [mpc EXCEPT ![n] = "heartbeat"]
                  /\ UNCHANGED <<exit_code, registry, guard, h, trace, reg0>>
             ELSE Exit(n, "err_discovery")
  /\ UNCHANGED <<wired, now, sender_only, inbox>>

\* main.rs 103-112
MainStartHeartbeat(n) ==
  /\ mpc[n] = "heartbeat"
  /\ tasks' = [tasks EXCEPT ![n] = @ \cup {"heartbeat"}]
  /\ mpc' = [mpc EXCEPT ![n] = "input"]
  /\ UNCHANGED <<wired, now, sender_only, exit_code, round, registry, guard, h,
                 trace, reg0, inbox>>

\* main.rs 122-133: one line read and sent as a Chat message
MainChat(n) ==
  /\ mpc[n] = "input"
  /\ \E ok \in SendOutcomes :
       IF IsErr(ok)
       THEN Exit(n, "err_chat")
       ELSE UNCHANGED <<mpc, exit_code, tasks, registry, guard, h, trace, reg0>>
  /\ UNCHANGED <<wired, now, sender_only, round, inbox>>

\* main.rs 122, 135: the input ends
MainEof(n) ==
  /\ mpc[n] = "input"
  /\ Exit(n, "ok")
  /\ UNCHANGED <<wired, now, sender_only, round, inbox>>

\* A periodic task that a failed round ends.
AnnounceTaskEnds(attempts, ts) == IF RoundOk(attempts) THEN ts ELSE ts \ {"announce"}

\* start_discovery 34-36: the Err of a round is logged and the loop goes on.
AnnounceTaskLogs(attempts, ts) == ts

\* start_discovery 29-38: one tick of the periodic task
AnnounceTick(n) ==
  /\ "announce" \in tasks[n]
  /\ \E out \in RoundOutcomes :
       LET attempts == send_discovery_message(BroadcastPorts, out)
       IN /\ round' = [round EXCEPT ![n] = attempts]
          /\ tasks' = [tasks EXCEPT ![n] = AnnounceTaskLogs(attempts, @)]
  /\ UNCHANGED <<wired, now, sender_only, mpc, exit_code, registry, guard, h,
                 trace, reg0, inbox>>

\* The heartbeat task prunes under the guard.
HeartbeatPrune(n) ==
  /\ "heartbeat" \in tasks[n]
  /\ guard[n] = "free"
  /\ registry' = [registry EXCEPT ![n] = prune_stale(@, TTL, now)]
  /\ UNCHANGED <<wired, now, sender_only, mpc, exit_code, tasks, round, guard, h,
                 trace, reg0, inbox>>

Tick ==
  /\ now < MaxTime
  /\ now' = now + 1
  /\ UNCHANGED <<wired, sender_only, mpc, exit_code, tasks, round, registry, guard, h,
                 trace, reg0, inbox>>

\* ------------------------------------------------------------ specifications

Fresh ==
  /\ now = 0
  /\ exit_code = [n \in Nodes |-> "none"]
  /\ round = [n \in Nodes |-> <<>>]
  /\ registry = [n \in Nodes |-> {}]
  /\ guard = [n \in Nodes |-> "free"]
  /\ h = [n \in Nodes |-> Idle]
  /\ trace = [n \in Nodes |-> <<>>]
  /\ reg0 = [n \in Nodes |-> {}]
  /\ inbox = [n \in Nodes |-> <<>>]

AllTasks == {"listener", "announce", "heartbeat"}

\* Spec: node X, its start-up finished (main reads the input; the listener,
\* the announce task and the heartbeat task run), before its first datagram.
\* The network is the environment.
Init ==
  /\ Fresh
  /\ wired = FALSE
  /\ sender_only = [n \in Nodes |-> FALSE]
  /\ mpc = [n \in Nodes |-> IF n = "X" THEN "input" ELSE "off"]
  /\ tasks = [n \in Nodes |-> IF n = "X" THEN AllTasks ELSE {}]

Handler(n) ==
  \/ DiscoveryReplyDone(n)
  \/ DiscoveryPeerListDone(n)
  \/ PeerListFollowUpDone(n)
  \/ HandlerReturn(n)

Next ==
  \/ Tick
  \/ \E n \in Nodes :
       \/ HeartbeatPrune(n)
       \/ RecvDiscovery(n)
       \/ RecvPeerList(n)
       \/ Handler(n)

Spec == Init /\ [][Next]_vars

\* MainSpec: node X from the start of main, in either mode; the environment
\* sends it Discovery messages.
MainInit ==
  /\ Fresh
  /\ wired = FALSE
  /\ sender_only \in {f \in [Nodes -> BOOLEAN] : \A n \in Nodes \ {"X"} : ~f[n]}
  /\ mpc = [n \in Nodes |-> IF n = "X" THEN "start" ELSE "off"]
  /\ tasks = [n \in Nodes |-> {}]

MainNext ==
  \/ Tick
  \/ \E n \in Nodes :
       \/ MainSenderOnly(n)
       \/ MainSpawnListener(n)
       \/ MainStartDiscovery(n)
       \/ MainStartHeartbeat(n)
       \/ MainChat(n)
       \/ MainEof(n)
       \/ AnnounceTick(n)
       \/ HeartbeatPrune(n)
       \/ RecvDiscovery(n)
       \/ DiscoveryReplyDone(n)
       \/ DiscoveryPeerListDone(n)
       \/ HandlerReturn(n)

MainSpec == MainInit /\ [][MainNext]_vars

\* NetSpec: nodes wired to each other, every datagram sent and delivered to
\* the node it is addressed to (a datagram for a node that does not run is
\* lost), no timer running.  Two nodes run, their start-up finished:
\*   gossip:   X and Y.  X knows nobody, or P (alice) and Q (bob); the
\*             Discovery the new node Y announced itself with has reached X.
\*   backfill: Y and P.  A PeerList naming P and Q has reached Y.
Peer0(n) == [addr |-> LocalAddr(n), name |-> Username(n), last_seen |-> 0]

NetScenario(running, regX, inboxX, inboxY) ==
  /\ registry = [n \in Nodes |-> IF n = "X" THEN regX ELSE {}]
  /\ inbox = [n \in Nodes |-> IF n = "X" THEN inboxX ELSE IF n = "Y" THEN inboxY ELSE <<>>]
  /\ mpc = [n \in Nodes |-> IF n \in running THEN "input" ELSE "off"]
  /\ tasks = [n \in Nodes |-> IF n \in running THEN AllTasks ELSE {}]

NetInit ==
  /\ wired = TRUE
  /\ now = 0
  /\ sender_only = [n \in Nodes |-> FALSE]
  /\ exit_code = [n \in Nodes |-> "none"]
  /\ round = [n \in Nodes |-> <<>>]
  /\ guard = [n \in Nodes |-> "free"]
  /\ h = [n \in Nodes |-> Idle]
  /\ trace = [n \in Nodes |-> <<>>]
  /\ reg0 = [n \in Nodes |-> {}]
  /\ \/ \E regX \in {{}, {Peer0("P"), Peer0("Q")}} :
          NetScenario({"X", "Y"}, regX, <<new_discovery(Username("Y"), LocalAddr("Y"))>>, <<>>)
     \/ \E peers \in Orderings({AddrP, AddrQ}) :
          NetScenario({"Y", "P"}, {}, <<>>,
                      <<new_peer_list(Username("X"), [i \in 1..2 |-> to_string(peers[i])],
                                      LocalAddr("X"))>>)

NodeStep(n) == RecvQueued(n) \/ Handler(n)

NetNext == \E n \in Nodes : NodeStep(n)

\* A node's dispatch loop is a task the runtime keeps scheduling: a queued
\* datagram is received and a handler that can step does.
NetSpec == NetInit /\ [][NetNext]_vars /\ \A n \in Nodes : WF_vars(NodeStep(n))

\* ------------------------------------------------------------------ claims

Sending == {"disc_reply", "disc_peerlist", "pl_followup"}
Handled(n, kind) == h[n].pc = "done" /\ h[n].msg.kind = kind
SenderText(n) == h[n].msg.sender_addr[1]
SenderAddr(n) == FromStr(SenderText(n)).addr
ParsesTo(s, addr) == FromStr(s).ok /\ FromStr(s).addr = addr
Contents(msg) == {msg.content[i] : i \in 1..Len(msg.content)}

\* C1: while and after a node handles a PeerList, whatever its registry held
\* and wherever its own address stands in the list, the handler has added no
\* entry for the node's local_addr and has sent (or is sending) no Discovery
\* to local_addr.
SelfExclusion ==
  \A n \in Nodes :
    h[n].msg.kind = "PeerList" =>
      /\ \A i \in 1..Len(trace[n]) :
           /\ trace[n][i].op = "add" => trace[n][i].addr # LocalAddr(n)
           /\ trace[n][i].op = "send" => ~ParsesTo(trace[n][i].to, LocalAddr(n))
      /\ h[n].pc = "pl_followup" => ~ParsesTo(h[n].to, LocalAddr(n))
      /\ {p \in registry[n] : p.addr = LocalAddr(n)} = {p \in reg0[n] : p.addr = LocalAddr(n)}

\* A PeerList naming the node itself after a new peer has been handled.
SelfExclusionWitness ==
  \E n \in Nodes :
    /\ Handled(n, "PeerList")
    /\ Len(h[n].msg.content) >= 2
    /\ ParsesTo(h[n].msg.content[2], LocalAddr(n))
    /\ reg0[n] # {}
    /\ \E i \in 1..Len(trace[n]) : trace[n][i].op = "add"

\* C2: in an announce round, every configured destination after one whose
\* send failed still gets a send attempt.
AnnounceRoundCoversAllPorts ==
  \A n \in Nodes :
    \A i \in 1..Len(round[n]) :
      ~round[n][i].ok =>
        \A j \in (i + 1)..Len(BroadcastPorts) :
          \E k \in 1..Len(round[n]) : round[n][k].dest = BroadcastDest(BroadcastPorts[j])

\* C3: no send failure of a discovery operation ends the process.
NoFatalDiscoveryError == \A n \in Nodes : exit_code[n] # "err_discovery"

\* C4 as stated: every handled Discovery message was answered with a
\* Discovery message.
DiscoveryReplyUnconditional ==
  \A n \in Nodes :
    Handled(n, "Discovery") =>
      \E i \in 1..Len(trace[n]) :
        trace[n][i].op = "send" /\ trace[n][i].msg.kind = "Discovery"

\* C4, amended: for a Discovery message whose sender_addr is present and
\* parses, the node sends its own Discovery message to the text of sender_addr,
\* first of all its sends; for any other Discovery message the handler makes
\* no registry call, sends nothing and returns Ok.
DiscoveryReply ==
  \A n \in Nodes :
    /\ h[n].pc = "disc_reply" =>
         h[n].to = SenderText(n) /\ h[n].out = new_discovery(Username(n), LocalAddr(n))
    /\ Handled(n, "Discovery") =>
         IF SenderParses(h[n].msg)
         THEN /\ Len(trace[n]) >= 2
              /\ trace[n][2].op = "send"
              /\ trace[n][2].to = SenderText(n)
              /\ trace[n][2].msg = new_discovery(Username(n), LocalAddr(n))
         ELSE trace[n] = <<>> /\ h[n].result = "ok" /\ guard[n] = "free"

\* A Discovery whose sender_addr is not the canonical text of its address was
\* handled, the reply's send failing.
DiscoveryReplyWitness ==
  \E n \in Nodes :
    /\ Handled(n, "Discovery")
    /\ SenderParses(h[n].msg)
    /\ SenderText(n) # to_string(SenderAddr(n))
    /\ h[n].result = "err"
    /\ Len(trace[n]) = 2

\* C5: a Discovery message with a parseable sender_addr, every send
\* succeeding: the node registers the sender under its name, then sends its
\* Discovery reply to the sender, then sends the sender one PeerList that names
\* each address of the registry (the ones known before and the sender) once.
DiscoveryExchange ==
  \A n \in Nodes :
    (Handled(n, "Discovery") /\ SenderParses(h[n].msg) /\ h[n].result = "ok") =>
      LET tr == trace[n]
      IN /\ Len(tr) = 3
         /\ tr[1] = EvAdd(SenderAddr(n), h[n].msg.sender)
         /\ tr[2] = EvSend(SenderText(n), new_discovery(Username(n), LocalAddr(n)), TRUE, TRUE)
         /\ tr[3].op = "send" /\ tr[3].ok /\ tr[3].to = SenderText(n)
         /\ tr[3].msg.kind = "PeerList"
         /\ Contents(tr[3].msg) = {to_string(a) : a \in RegAddrs(registry[n])}
         /\ Len(tr[3].msg.content) = Cardinality(RegAddrs(registry[n]))
         /\ RegAddrs(registry[n]) = RegAddrs(reg0[n]) \cup {SenderAddr(n)}
         /\ NameOf(registry[n], SenderAddr(n)) = h[n].msg.sender

\* A new sender's Discovery was handled by a node that knew two peers.
DiscoveryExchangeWitness ==
  \E n \in Nodes :
    /\ Handled(n, "Discovery") /\ SenderParses(h[n].msg) /\ h[n].result = "ok"
    /\ Cardinality(RegAddrs(reg0[n])) = 2
    /\ SenderAddr(n) \notin RegAddrs(reg0[n])
    /\ Len(trace[n][3].msg.content) = 3

\* C6: after a PeerList is handled, every entry that parses to an address
\* other than local_addr and was not in the registry is registered under its
\* placeholder name and was sent a Discovery message.
FollowUpEveryNewEntry ==
  \A n \in Nodes :
    Handled(n, "PeerList") =>
      \A i \in 1..Len(h[n].msg.content) :
        LET parsed == FromStr(h[n].msg.content[i])
        IN (parsed.ok /\ parsed.addr # LocalAddr(n) /\ parsed.addr \notin RegAddrs(reg0[n])) =>
             /\ \E p \in registry[n] : p.addr = parsed.addr /\ p.name = to_string(parsed.addr)
             /\ \E k \in 1..Len(trace[n]) :
                  /\ trace[n][k].op = "send"
                  /\ trace[n][k].to = to_string(parsed.addr)
                  /\ trace[n][k].msg = new_discovery(Username(n), LocalAddr(n))

\* C7: a registry holds one entry per address, and no step lowers the
\* last_seen of a peer it keeps.
RegistryInvariant ==
  [][\A n \in Nodes :
       /\ \A p, q \in registry'[n] : p.addr = q.addr => p = q
       /\ \A p \in registry[n], q \in registry'[n] :
            p.addr = q.addr => q.last_seen >= p.last_seen]_vars

\* A handler has seen again, at a later time, a peer the registry held.
RegistryInvariantWitness ==
  \E n \in Nodes :
    /\ h[n].pc = "done"
    /\ \E p \in reg0[n], q \in registry[n] : p.addr = q.addr /\ q.last_seen > p.last_seen
    /\ Cardinality(registry[n]) >= 2

\* C8: once X, which knows P and Q, handles the Discovery of Y, Y's registry
\* comes to hold P and Q.
TransitiveGossip ==
  (/\ h["X"].pc = "disc_reply"
   /\ h["X"].msg.sender_addr = <<to_string(LocalAddr("Y"))>>
   /\ {AddrP, AddrQ} \subseteq RegAddrs(registry["X"]))
  ~> ({AddrP, AddrQ} \subseteq RegAddrs(registry["Y"]))

\* Y has learnt P and Q, with X running (Y was sent no PeerList but X's).
TransitiveGossipWitness ==
  /\ "listener" \in tasks["X"]
  /\ {AddrP, AddrQ} \subseteq RegAddrs(registry["Y"])

Placeholder(n, m) ==
  \E p \in registry[n] : p.addr = LocalAddr(m) /\ p.name = to_string(LocalAddr(m))
RealName(n, m) ==
  \E p \in registry[n] : p.addr = LocalAddr(m) /\ p.name = Username(m)

\* C9: a running peer that a running node holds under its placeholder name
\* comes to be held under its real display name.
NameBackfill ==
  \A n, m \in Nodes :
    ("listener" \in tasks[n] /\ "listener" \in tasks[m] /\ Placeholder(n, m)) ~> RealName(n, m)

\* Y, which learnt P from a PeerList, holds P under its real name.
NameBackfillWitness ==
  /\ "listener" \notin tasks["X"]
  /\ RealName("Y", "P")

\* C10: while a handler's send is in progress, the registry guard is free.
GuardFreeDuringSend ==
  \A n \in Nodes : h[n].pc \in Sending => guard[n] = "free"

\* C11: handle_peer_list_message holds the registry guard from the
\* update_last_seen check to the add_or_update_peer that follows it, and on to
\* its return: no step gives a registered peer that had another name its
\* placeholder name, the handler holds the guard at each of its awaits, and
\* while it awaits no other task changes the registry.
AtomicCheckThenInsert ==
  [][\A n \in Nodes :
       /\ \A p \in registry[n], q \in registry'[n] :
            (p.addr = q.addr /\ q.name = to_string(q.addr)) => p.name = q.name
       /\ h'[n].pc = "pl_followup" => guard'[n] = "dispatch"
       /\ (h[n].pc = "pl_followup" /\ h'[n] = h[n]) => registry'[n] = registry[n]]_vars

\* A PeerList named a peer held under its real name and a new peer; while the
\* follow-up send is in progress the known peer has gone stale, and the
\* heartbeat task's prune waits for the guard.
AtomicCheckThenInsertWitness ==
  \E n \in Nodes :
    /\ h[n].pc = "pl_followup"
    /\ "heartbeat" \in tasks[n]
    /\ \E i \in 1..Len(trace[n]) :
         /\ trace[n][i].op = "touch"
         /\ \E p \in registry[n] :
              /\ p.addr = trace[n][i].addr
              /\ p.name # to_string(p.addr)
              /\ now - p.last_seen > TTL

\* C12: once start_discovery has spawned the periodic announce task, the task
\* runs for as long as the process does, whatever its rounds' sends gave: it
\* is there and its next tick can be taken.
AnnounceTaskContinues ==
  \A n \in Nodes :
    (mpc[n] \in {"heartbeat", "input"} /\ ~sender_only[n]) =>
      ("announce" \in tasks[n] /\ ENABLED AnnounceTick(n))

\* A tick's round has failed at its first send (the initial round, had it
\* failed, would have ended the process), and the task is still there.
AnnounceTaskContinuesWitness ==
  \E n \in Nodes :
    /\ mpc[n] = "input"
    /\ round[n] # <<>> /\ ~RoundOk(round[n])
    /\ "announce" \in tasks[n]

\* The addresses a PeerList's well-formed entries name.
Named(msg) == {t[2] : t \in {u \in AddrTexts : u[1] \in Contents(msg)}}
FailedSend(ev) == ev.op = "send" /\ ~ev.ok

\* C13: while and after a node handles a PeerList, its empty and unparseable
\* entries have changed no registry entry and caused no send (every registry
\* call and every send is for an address a well-formed entry names), they
\* raise no error (an Err comes from a failed send only), and the entries
\* around them are processed: when the handler returns Ok every named address
\* but local_addr is registered and was added or refreshed. A PeerList with no
\* well-formed entry, the empty content among them, leaves the registry as it
\* was, sends nothing and returns Ok.
DefensiveDecoding ==
  \A n \in Nodes :
    h[n].msg.kind = "PeerList" =>
      LET tr == trace[n]
          named == Named(h[n].msg)
      IN /\ \A i \in 1..Len(tr) :
              /\ tr[i].op \in {"add", "touch"} => tr[i].addr \in named
              /\ tr[i].op = "send" =>
                   \E t \in AddrTexts : t[1] = tr[i].to /\ t[2] \in named
         /\ \A p \in reg0[n] : p.addr \notin named => p \in registry[n]
         /\ \A q \in registry[n] : q.addr \notin named => q \in reg0[n]
         /\ h[n].pc = "done" =>
              /\ h[n].result = "err" => (tr # <<>> /\ FailedSend(tr[Len(tr)]))
              /\ h[n].result = "ok" =>
                   \A a \in named \ {LocalAddr(n)} :
                     /\ a \in RegAddrs(registry[n])
                     /\ \E i \in 1..Len(tr) : tr[i].op \in {"add", "touch"} /\ tr[i].addr = a
              /\ named = {} => (registry[n] = reg0[n] /\ tr = <<>> /\ h[n].result = "ok")

\* A PeerList whose first entry does not parse and whose second names a new
\* peer was handled: the peer was added and sent a Discovery.
DefensiveDecodingWitness ==
  \E n \in Nodes :
    /\ Handled(n, "PeerList") /\ h[n].result = "ok"
    /\ Len(h[n].msg.content) = 2
    /\ h[n].msg.content[1] = Malformed
    /\ reg0[n] # {}
    /\ Len(trace[n]) = 3 /\ trace[n][1].op = "add" /\ trace[n][2].op = "send"

\* What a registry tells of its peers but their last_seen.
NameSet(reg) == {<<p.addr, p.name>> : p \in reg}
\* The contents whose fields are the fields of c in another order.
Perms(c) == {[i \in 1..Len(c) |-> c[f[i]]] : f \in Orderings(1..Len(c))}
SentDests(tr) == {tr[i].to : i \in {j \in 1..Len(tr) : tr[j].op = "send"}}
FailedDests(tr) == {tr[i].to : i \in {j \in 1..Len(tr) : FailedSend(tr[j])}}

\* C14: a handled PeerList and any PeerList with the same entries in another
\* order, handled from the same registry with the sends to the same
\* destinations failing, leave the same addresses registered under the same
\* names and have sent a Discovery to the same addresses.
OrderIndependence ==
  \A n \in Nodes :
    Handled(n, "PeerList") =>
      \A c \in Perms(h[n].msg.content) :
        LET r == handle_peer_list_message(reg0[n], c, {}, FailedDests(trace[n]), now,
                                          LocalAddr(n))
        IN NameSet(r.reg) = NameSet(registry[n]) /\ r.sent = SentDests(trace[n])

\* C15: with every datagram delivered and no timer running, the exchange that
\* one Discovery announce starts comes to rest: from some point on no datagram
\* is queued and no handler runs.
Quiescence ==
  <>[](\A n \in Nodes : inbox[n] = <<>> /\ h[n].pc = "idle")

\* C16: whatever Discovery and PeerList messages a node has handled, its
\* registry holds no entry for its own local_addr.
NeverRegistersSelf ==
  \A n \in Nodes : LocalAddr(n) \notin RegAddrs(registry[n])

\* While a node handles a PeerList, every peer its registry held is still held
\* under the same name, and no Discovery was or is being sent to one of them.
KnownPeersKept(n) ==
  /\ \A p \in reg0[n] : \E q \in registry[n] : q.addr = p.addr /\ q.name = p.name
  /\ \A i \in 1..Len(trace[n]) :
       trace[n][i].op = "send" =>
         \A p \in reg0[n] : ~ParsesTo(trace[n][i].to, p.addr)
  /\ h[n].pc = "pl_followup" => \A p \in reg0[n] : ~ParsesTo(h[n].to, p.addr)

\* The handled PeerList handled once more, from the registry the first
\* handling left: it adds no peer, renames no peer and sends nothing.
SecondHandlingIdle(n) ==
  \A failing \in SUBSET SentDests(trace[n]) :
    LET r == handle_peer_list_message(registry[n], h[n].msg.content, {}, failing, now,
                                      LocalAddr(n))
    IN NameSet(r.reg) = NameSet(registry[n]) /\ r.sent = {} /\ r.result = "ok"

Taken(n) == Len(h[n].msg.content) - Len(h[n].rest)

\* C18: a send of a handler that fails is the handler's last step, the handler
\* returns the error, and what it registered stays: after a failed Discovery
\* reply the sender is registered under its name and no PeerList was sent;
\* after a failed PeerList send the sender is registered as well; after a
\* failed follow-up Discovery the new peer is registered under its placeholder
\* name, and a new address that only later entries name is not registered.
NoRollbackOnSendError ==
  \A n \in Nodes :
    \A k \in 1..Len(trace[n]) :
      FailedSend(trace[n][k]) =>
        /\ k = Len(trace[n]) /\ h[n].pc = "done" /\ h[n].result = "err"
        /\ \A i \in 1..k :
             trace[n][i].op = "add" =>
               <<trace[n][i].addr, trace[n][i].name>> \in NameSet(registry[n])
        /\ \A p \in reg0[n] : p.addr \in RegAddrs(registry[n])
        /\ h[n].msg.kind = "Discovery" =>
             /\ <<SenderAddr(n), h[n].msg.sender>> \in NameSet(registry[n])
             /\ trace[n][k].msg.kind = "Discovery" =>
                  \A i \in 1..k : trace[n][i].op = "send" => trace[n][i].msg.kind # "PeerList"
        /\ h[n].msg.kind = "PeerList" =>
             LET failed == FromStr(trace[n][k].to).addr
                 content == h[n].msg.content
             IN /\ <<failed, to_string(failed)>> \in NameSet(registry[n])
                /\ ParsesTo(content[Taken(n)], failed)
                /\ \A j \in (Taken(n) + 1)..Len(content) :
                     LET parsed == FromStr(content[j])
                     IN (/\ parsed.ok
                         /\ parsed.addr \notin RegAddrs(reg0[n])
                         /\ \A i \in 1..Taken(n) : ~ParsesTo(content[i], parsed.addr))
                        => parsed.addr \notin RegAddrs(registry[n])

\* A PeerList naming two new peers was handled by a node that knew a third:
\* the follow-up send to the first failed.
NoRollbackOnSendErrorWitness ==
  \E n \in Nodes :
    /\ Handled(n, "PeerList") /\ h[n].result = "err"
    /\ reg0[n] # {}
    /\ Taken(n) = 1 /\ Len(h[n].rest) = 1
    /\ FromStr(h[n].rest[1]).ok
    /\ FromStr(h[n].rest[1]).addr \notin RegAddrs(registry[n]) \cup {LocalAddr(n)}
    /\ Cardinality(registry[n]) = Cardinality(reg0[n]) + 1

\* The address a send's destination stands for.
DestAddr(to) == FromStr(to).addr

\* C19: while and after a node handles a PeerList, no two of its sends (the
\* one in progress among them) go to the same address and no address was added
\* twice: an address the list names several times, under one spelling or
\* several, is registered and sent a Discovery at its first occurrence only.
OneDiscoveryPerAddress ==
  \A n \in Nodes :
    h[n].msg.kind = "PeerList" =>
      LET tr == trace[n]
      IN /\ \A i, j \in 1..Len(tr) :
              (i # j /\ tr[i].op = tr[j].op /\ tr[i].op = "send") =>
                DestAddr(tr[i].to) # DestAddr(tr[j].to)
         /\ \A i, j \in 1..Len(tr) :
              (i # j /\ tr[i].op = tr[j].op /\ tr[i].op = "add") => tr[i].addr # tr[j].addr
         /\ \A i \in 1..Len(tr) :
              (h[n].pc = "pl_followup" /\ tr[i].op = "send") =>
                DestAddr(tr[i].to) # DestAddr(h[n].to)
         /\ \A i \in 1..Len(tr) :
              tr[i].op = "send" =>
                (i > 1 /\ tr[i - 1].op = "add" /\ tr[i - 1].addr = DestAddr(tr[i].to))

\* A PeerList that names one new address twice, under two spellings, was
\* handled: the address was added and sent a Discovery once, then refreshed.
OneDiscoveryPerAddressWitness ==
  \E n \in Nodes :
    /\ Handled(n, "PeerList") /\ h[n].result = "ok"
    /\ Len(h[n].msg.content) = 2
    /\ h[n].msg.content[1] # h[n].msg.content[2]
    /\ FromStr(h[n].msg.content[1]).ok
    /\ FromStr(h[n].msg.content[1]) = FromStr(h[n].msg.content[2])
    /\ Len(trace[n]) = 4
    /\ trace[n][1].op = "add" /\ trace[n][2].op = "send" /\ trace[n][3].op = "touch"

\* C20: a node in sender-only mode runs no listener, announce or heartbeat
\* task, has made no announce round, handles no message (so sends no Discovery
\* reply or follow-up) and keeps its registry empty; a node in two-way mode
\* has its listener spawned before its first announce round, its announce task
\* spawned after the listener, and its heartbeat task started only once
\* start_discovery has returned Ok (the periodic announce task is spawned).
SenderOnlyAndStartOrder ==
  \A n \in Nodes :
    /\ sender_only[n] =>
         /\ tasks[n] = {}
         /\ round[n] = <<>>
         /\ registry[n] = {}
         /\ h[n] = Idle /\ trace[n] = <<>>
         /\ mpc[n] \in {"start", "input", "exited"}
         /\ exit_code[n] # "err_discovery"
    /\ (round[n] # <<>> /\ mpc[n] # "exited") => "listener" \in tasks[n]
    /\ mpc[n] = "discovery" => (tasks[n] = {"listener"} /\ round[n] = <<>>)
    /\ "announce" \in tasks[n] => "listener" \in tasks[n]
    /\ "heartbeat" \in tasks[n] => {"listener", "announce"} \subseteq tasks[n]
    /\ mpc[n] = "heartbeat" => tasks[n] = {"listener", "announce"}

\* A sender-only node has read a line and sent it as a Chat message, and the
\* send failed.
SenderOnlyAndStartOrderWitness ==
  \E n \in Nodes : sender_only[n] /\ exit_code[n] = "err_chat"

====
